---------------------------- MODULE Spec2Model ----------------------------
(***************************************************************************)
(* analyze_baseline.py: reads every *.jsonl file of a log directory,       *)
(* tallies the OK/WARN/FAIL outcome of the records, and writes a Markdown  *)
(* report.  The program is one sequential pass; the model follows main()   *)
(* section by section and models read_jsonl_file, normalize_status and     *)
(* score_status as operators.                                              *)
(***************************************************************************)
EXTENDS Integers, Sequences, FiniteSets, TLC

(***************************************************************************)
(* Bounds of the model.                                                    *)
(***************************************************************************)
\* number of *.jsonl files in the log directory
MaxFiles == 2
\* number of lines the decoder is handed, over all files of one run
MaxLines == 3
\* length of a status string handed to normalize_status on its own
MaxStrLen == 4

(***************************************************************************)
(* JSON values.  A field of a decoded object is absent, a string or a      *)
(* number.  The text of a status is a sequence of characters, so that      *)
(* strip() and upper() are computed; a check name is only ever compared    *)
(* as a whole and is kept as one string.                                   *)
(***************************************************************************)
Absent == [t |-> "absent", v |-> <<>>]
Str(chars) == [t |-> "str", v |-> chars]
Num(digits) == [t |-> "int", v |-> digits]
Name(text) == [t |-> "str", v |-> text]

\* line 7
ALLOWED_STATUS == {"OK", "WARN", "FAIL"}

Whitespace == {" ", "\t", "\n"}

\* str.upper() on the letters the model uses; every other character is kept
UpperChar(c) ==
    CASE c = "o" -> "O"
      [] c = "k" -> "K"
      [] c = "w" -> "W"
      [] c = "a" -> "A"
      [] c = "r" -> "R"
      [] c = "n" -> "N"
      [] c = "f" -> "F"
      [] c = "i" -> "I"
      [] c = "l" -> "L"
      [] c = "b" -> "B"
      [] OTHER -> c

upper(chars) == [i \in 1..Len(chars) |-> UpperChar(chars[i])]

RECURSIVE lstrip(_)
lstrip(chars) ==
    IF chars # <<>> /\ Head(chars) \in Whitespace THEN lstrip(Tail(chars)) ELSE chars

RECURSIVE rstrip(_)
rstrip(chars) ==
    IF chars # <<>> /\ chars[Len(chars)] \in Whitespace
    THEN rstrip(SubSeq(chars, 1, Len(chars) - 1))
    ELSE chars

strip(chars) == rstrip(lstrip(chars))

\* the members of ALLOWED_STATUS as character sequences
Spelling(word) ==
    CASE word = "OK" -> <<"O", "K">>
      [] word = "WARN" -> <<"W", "A", "R", "N">>
      [] word = "FAIL" -> <<"F", "A", "I", "L">>

\* normalize_status without the strip() of line 33
normalize_status_NoStrip(s) ==
    IF s.t # "str"
    THEN "FAIL"
    ELSE LET u == upper(s.v)
         IN  IF \E w \in ALLOWED_STATUS : Spelling(w) = u
             THEN CHOOSE w \in ALLOWED_STATUS : Spelling(w) = u
             ELSE "FAIL"

\* lines 30-34
normalize_status(s) ==
    IF s.t # "str"
    THEN "FAIL"
    ELSE LET u == upper(strip(s.v))
         IN  IF \E w \in ALLOWED_STATUS : Spelling(w) = u
             THEN CHOOSE w \in ALLOWED_STATUS : Spelling(w) = u
             ELSE "FAIL"

\* score_status with the scores of WARN and FAIL exchanged
score_status_WarnWorst(status) ==
    CASE status = "OK" -> 0
      [] status = "WARN" -> 2
      [] status = "FAIL" -> 1
      [] OTHER -> 2

\* lines 36-38
score_status(status) ==
    CASE status = "OK" -> 0
      [] status = "WARN" -> 1
      [] status = "FAIL" -> 2
      [] OTHER -> 2

(***************************************************************************)
(* Lines of a log file.  A line is blank, fails json.loads with a          *)
(* JSONDecodeError, or decodes to a JSON value: an object with its check   *)
(* and status fields, or a value that is not an object.                    *)
(***************************************************************************)
NoJson == [type |-> "none", check |-> Absent, status |-> Absent]
Object(check, status) == [type |-> "object", check |-> check, status |-> status]
ArrayValue == [type |-> "array", check |-> Absent, status |-> Absent]

BlankLine == [kind |-> "blank", json |-> NoJson]
BadLine == [kind |-> "bad", json |-> NoJson]
JsonLine(value) == [kind |-> "json", json |-> value]

\* The records the runs are fed: checks without a name whose status reads OK,
\* WARN or is missing, and the two run-metadata records, one with a status
\* that reads WARN and one without a status.
StatusOk == Str(<<"o", "k">>)
StatusWarn == Str(<<" ", "W", "a", "r", "n">>)

ObjectSamples ==
    {Object(Absent, StatusOk), Object(Absent, StatusWarn), Object(Absent, Absent),
     Object(Name("run_start"), StatusWarn), Object(Name("run_summary"), Absent)}
LineSamples == {BlankLine, BadLine, JsonLine(ArrayValue)}
                   \cup {JsonLine(o) : o \in ObjectSamples}

RECURSIVE SeqsUpTo(_, _)
SeqsUpTo(S, n) ==
    IF n = 0 THEN {<<>>}
    ELSE LET shorter == SeqsUpTo(S, n - 1)
         IN  shorter \cup {Append(q, x) : q \in {p \in shorter : Len(p) = n - 1}, x \in S}

(***************************************************************************)
(* read_jsonl_file.  A path is the file's name, the lines its iterator     *)
(* yields, and whether the open or the iteration then raises an exception  *)
(* other than JSONDecodeError (OSError, UnicodeDecodeError, or the         *)
(* RecursionError / ValueError json.loads raises on some lines) instead of *)
(* reaching the end of the file.                                           *)
(***************************************************************************)
LineError(name, lineno) == [file |-> name, lineno |-> lineno, what |-> "JSONDecodeError"]
FileError(name) == [file |-> name, lineno |-> 0, what |-> "Could not read file"]

\* ReadLines leaving the loop at the first line that fails to parse
RECURSIVE ReadLines_StopAtBad(_, _, _, _)
ReadLines_StopAtBad(name, lines, lineno, acc) ==
    IF lineno > Len(lines)
    THEN acc
    ELSE LET line == lines[lineno]
         IN  CASE line.kind = "blank" -> ReadLines_StopAtBad(name, lines, lineno + 1, acc)
               [] line.kind = "json" ->
                    ReadLines_StopAtBad(name, lines, lineno + 1,
                        [acc EXCEPT !.entries = Append(@, line.json)])
               [] OTHER -> [acc EXCEPT !.errors = Append(@, LineError(name, lineno))]

\* lines 16-24
RECURSIVE ReadLines(_, _, _, _)
ReadLines(name, lines, lineno, acc) ==
    IF lineno > Len(lines)
    THEN acc
    ELSE LET line == lines[lineno]
             next == CASE line.kind = "blank" -> acc
                       [] line.kind = "json" ->
                            [acc EXCEPT !.entries = Append(@, line.json)]
                       [] OTHER ->
                            [acc EXCEPT !.errors = Append(@, LineError(name, lineno))]
         IN  ReadLines(name, lines, lineno + 1, next)

\* read_jsonl_file discarding what it had read when the reading raises
read_jsonl_file_DropOnRaise(path) ==
    LET r == ReadLines(path.name, path.lines, 1, [entries |-> <<>>, errors |-> <<>>])
    IN  IF path.raises
        THEN [entries |-> <<>>, errors |-> <<FileError(path.name)>>]
        ELSE r

\* lines 9-28
read_jsonl_file(path) ==
    LET r == ReadLines(path.name, path.lines, 1, [entries |-> <<>>, errors |-> <<>>])
    IN  IF path.raises
        THEN [r EXCEPT !.errors = Append(@, FileError(path.name))]
        ELSE r

(***************************************************************************)
(* Classifier, aggregator, risk mapper of main().                          *)
(***************************************************************************)
\* IsReserved knowing run_start only
IsReserved_StartOnly(e) == e.check.t = "str" /\ e.check.v \in {"run_start"}

\* lines 67-68; e.get("check", "") of an object
IsReserved(e) == e.check.t = "str" /\ e.check.v \in {"run_start", "run_summary"}

\* line 67: only a dict has .get; on any other JSON value it raises AttributeError
GetRaises(e) == e.type # "object"

\* lines 70-72
Classified(e) ==
    [type |-> e.type, check |-> e.check, status |-> e.status,
     norm_status |-> normalize_status(e.status)]

\* lines 65-72, when no e.get raises
RECURSIVE Classify(_)
Classify(entries) ==
    IF entries = <<>> THEN <<>>
    ELSE IF IsReserved(Head(entries))
         THEN Classify(Tail(entries))
         ELSE <<Classified(Head(entries))>> \o Classify(Tail(entries))

\* Aggregate with the increment of line 81 under the test of line 84
RECURSIVE Aggregate_CountFindingsOnly(_, _)
Aggregate_CountFindingsOnly(entries, acc) ==
    IF entries = <<>> THEN acc
    ELSE LET e == Head(entries)
             st == e.norm_status
         IN  Aggregate_CountFindingsOnly(Tail(entries),
                 [counts |-> IF st \in {"WARN", "FAIL"}
                             THEN [acc.counts EXCEPT ![st] = @ + 1] ELSE acc.counts,
                  worst |-> IF score_status(st) > score_status(acc.worst)
                            THEN st ELSE acc.worst,
                  findings |-> IF st \in {"WARN", "FAIL"}
                               THEN Append(acc.findings, e) ELSE acc.findings])

\* lines 75-85
RECURSIVE Aggregate(_, _)
Aggregate(entries, acc) ==
    IF entries = <<>> THEN acc
    ELSE LET e == Head(entries)
             st == e.norm_status
         IN  Aggregate(Tail(entries),
                 [counts |-> [acc.counts EXCEPT ![st] = @ + 1],
                  worst |-> IF score_status(st) > score_status(acc.worst)
                            THEN st ELSE acc.worst,
                  findings |-> IF st \in {"WARN", "FAIL"}
                               THEN Append(acc.findings, e) ELSE acc.findings])

\* lines 75-77
NoCounts == [st \in ALLOWED_STATUS |-> 0]
AggregateInit == [counts |-> NoCounts, worst |-> "OK", findings |-> <<>>]

\* lines 88-94
RiskLevel(fail_count) ==
    IF fail_count = 0 THEN "Låg"
    ELSE IF fail_count = 1 THEN "Medel"
    ELSE "Hög"

\* line 52: sorted(): the names in ascending order
RECURSIVE sorted(_)
sorted(S) ==
    IF S = {} THEN <<>>
    ELSE LET least == CHOOSE x \in S : \A y \in S : x <= y
         IN  <<least>> \o sorted(S \ {least})

(***************************************************************************)
(* State.                                                                  *)
(***************************************************************************)
VARIABLES
    pc,            \* position in main()
    argc,          \* len(sys.argv)
    logdir,        \* what the first argument names: "missing", "file" or "dir"
    log_files,     \* sorted names of the *.jsonl files
    disk,          \* the paths read so far, as read_jsonl_file saw them
    all_entries,
    all_errors,
    check_entries,
    counts,
    worst,
    findings,
    risk,
    mkdir_done,    \* out_path.parent.mkdir was called
    report,        \* what the run wrote to out_path, NoReport before
    exit_code,     \* the process's exit status, Running before it ends
    uncaught,      \* the exception that ended the process, "none" otherwise
    s_arg,         \* normalize_status on its own: the argument
    s_ret          \*   and the value returned, "none" before the call

vars == <<pc, argc, logdir, log_files, disk, all_entries, all_errors,
          check_entries, counts, worst, findings, risk, mkdir_done, report,
          exit_code, uncaught, s_arg, s_ret>>

Running == -1
NoReport == [written |-> FALSE, files |-> <<>>, total |-> 0, counts |-> NoCounts,
             worst |-> "OK", risk |-> "none", findings |-> <<>>, errors |-> <<>>]

ArgcValues == {2, 3, 4}
LogdirKinds == {"missing", "file", "dir"}

InitData ==
    /\ log_files = <<>>
    /\ disk = <<>>
    /\ all_entries = <<>>
    /\ all_errors = <<>>
    /\ check_entries = <<>>
    /\ counts = NoCounts
    /\ worst = "OK"
    /\ findings = <<>>
    /\ risk = "none"
    /\ mkdir_done = FALSE
    /\ report = NoReport
    /\ exit_code = Running
    /\ uncaught = "none"

Init ==
    /\ pc = "args"
    /\ argc \in ArgcValues
    /\ logdir \in LogdirKinds
    /\ InitData
    /\ s_arg = Absent
    /\ s_ret = "none"

\* lines 41-43
CheckArgs ==
    /\ pc = "args"
    /\ IF argc # 3
       THEN pc' = "exited" /\ exit_code' = 2
       ELSE pc' = "logdir" /\ UNCHANGED exit_code
    /\ UNCHANGED <<argc, logdir, log_files, disk, all_entries, all_errors,
                   check_entries, counts, worst, findings, risk, mkdir_done,
                   report, uncaught, s_arg, s_ret>>

\* lines 48-50
CheckLogdir ==
    /\ pc = "logdir"
    /\ IF logdir # "dir"
       THEN pc' = "exited" /\ exit_code' = 2
       ELSE pc' = "glob" /\ UNCHANGED exit_code
    /\ UNCHANGED <<argc, logdir, log_files, disk, all_entries, all_errors,
                   check_entries, counts, worst, findings, risk, mkdir_done,
                   report, uncaught, s_arg, s_ret>>

\* Glob with the mkdir of line 96 done before the test of line 53
Glob_MkdirFirst ==
    /\ pc = "glob"
    /\ mkdir_done' = TRUE
    /\ \E n \in 0..MaxFiles :
          /\ log_files' = sorted(1..n)
          /\ IF n = 0
             THEN pc' = "exited" /\ exit_code' = 2
             ELSE pc' = "load" /\ UNCHANGED exit_code
    /\ UNCHANGED <<argc, logdir, disk, all_entries, all_errors,
                   check_entries, counts, worst, findings, risk,
                   report, uncaught, s_arg, s_ret>>

\* lines 52-57; the directory holds n files named *.jsonl, and a file's name
\* is its rank in the lexicographic order of the names
Glob ==
    /\ pc = "glob"
    /\ \E n \in 0..MaxFiles :
          /\ log_files' = sorted(1..n)
          /\ IF n = 0
             THEN pc' = "exited" /\ exit_code' = 2
             ELSE pc' = "load" /\ UNCHANGED exit_code
    /\ UNCHANGED <<argc, logdir, disk, all_entries, all_errors,
                   check_entries, counts, worst, findings, risk, mkdir_done,
                   report, uncaught, s_arg, s_ret>>

TotalLines(files) ==
    LET RECURSIVE Sum(_)
        Sum(i) == IF i = 0 THEN 0 ELSE Len(files[i].lines) + Sum(i - 1)
    IN  Sum(Len(files))

\* lines 59-62, one file
LoadFile ==
    /\ pc = "load"
    /\ Len(disk) < Len(log_files)
    /\ \E lines \in SeqsUpTo(LineSamples, MaxLines - TotalLines(disk)), raises \in BOOLEAN :
          LET path == [name |-> log_files[Len(disk) + 1], lines |-> lines, raises |-> raises]
              r == read_jsonl_file(path)
          IN  /\ disk' = Append(disk, path)
              /\ all_entries' = all_entries \o r.entries
              /\ all_errors' = all_errors \o r.errors
    /\ pc' = IF Len(disk') = Len(log_files) THEN "classify" ELSE "load"
    /\ UNCHANGED <<argc, logdir, log_files, check_entries, counts, worst, findings,
                   risk, mkdir_done, report, exit_code, uncaught, s_arg, s_ret>>

\* lines 65-72
ClassifyEntries ==
    /\ pc = "classify"
    /\ IF \E i \in 1..Len(all_entries) : GetRaises(all_entries[i])
       THEN /\ pc' = "exited"
            /\ uncaught' = "AttributeError"
            /\ exit_code' = 1
            /\ UNCHANGED check_entries
       ELSE /\ pc' = "aggregate"
            /\ check_entries' = Classify(all_entries)
            /\ UNCHANGED <<uncaught, exit_code>>
    /\ UNCHANGED <<argc, logdir, log_files, disk, all_entries, all_errors,
                   counts, worst, findings, risk, mkdir_done, report, s_arg, s_ret>>

\* lines 75-85
AggregateEntries ==
    /\ pc = "aggregate"
    /\ LET r == Aggregate(check_entries, AggregateInit)
       IN  /\ counts' = r.counts
           /\ worst' = r.worst
           /\ findings' = r.findings
    /\ pc' = "risk"
    /\ UNCHANGED <<argc, logdir, log_files, disk, all_entries, all_errors,
                   check_entries, risk, mkdir_done, report, exit_code, uncaught,
                   s_arg, s_ret>>

\* MapRisk weighing the WARN counter too
MapRisk_CountsWarn ==
    /\ pc = "risk"
    /\ risk' = RiskLevel(counts["FAIL"] + counts["WARN"])
    /\ pc' = "write"
    /\ UNCHANGED <<argc, logdir, log_files, disk, all_entries, all_errors,
                   check_entries, counts, worst, findings, mkdir_done, report,
                   exit_code, uncaught, s_arg, s_ret>>

\* lines 88-94
MapRisk ==
    /\ pc = "risk"
    /\ risk' = RiskLevel(counts["FAIL"])
    /\ pc' = "write"
    /\ UNCHANGED <<argc, logdir, log_files, disk, all_entries, all_errors,
                   check_entries, counts, worst, findings, mkdir_done, report,
                   exit_code, uncaught, s_arg, s_ret>>

\* lines 96-131
WriteReport ==
    /\ pc = "write"
    /\ mkdir_done' = TRUE
    /\ report' = [written |-> TRUE, files |-> log_files, total |-> Len(check_entries),
                  counts |-> counts, worst |-> worst, risk |-> risk,
                  findings |-> findings, errors |-> all_errors]
    /\ pc' = "exit"
    /\ UNCHANGED <<argc, logdir, log_files, disk, all_entries, all_errors,
                   check_entries, counts, worst, findings, risk, exit_code,
                   uncaught, s_arg, s_ret>>

\* line 134
ExitCode(fail_count) == IF fail_count = 0 THEN 0 ELSE 1

Exit ==
    /\ pc = "exit"
    /\ exit_code' = ExitCode(counts["FAIL"])
    /\ pc' = "exited"
    /\ UNCHANGED <<argc, logdir, log_files, disk, all_entries, all_errors,
                   check_entries, counts, worst, findings, risk, mkdir_done,
                   report, uncaught, s_arg, s_ret>>

Next ==
    \/ CheckArgs
    \/ CheckLogdir
    \/ Glob
    \/ LoadFile
    \/ ClassifyEntries
    \/ AggregateEntries
    \/ MapRisk
    \/ WriteReport
    \/ Exit

Spec == Init /\ [][Next]_vars

(***************************************************************************)
(* normalize_status on its own: one call on a status drawn from every      *)
(* string of at most MaxStrLen characters over StatusAlphabet, the         *)
(* spellings below, a number and a missing field.                          *)
(***************************************************************************)
StatusAlphabet == {" ", "\t", "o", "k", "O", "K"}

StatusSpellings ==
    {<<"w", "a", "r", "n">>, <<"W", "A", "R", "N">>, <<"\n", "W", "a", "r", "n", " ">>,
     <<"f", "a", "i", "l">>, <<"F", "A", "I", "L">>, <<" ", "F", "a", "i", "l", "\t">>,
     <<"b", "a", "n", "a", "n", "a">>, <<"4", "2">>, <<"W", "A", "R", "N", "I", "N", "G">>,
     <<"F", "A", " ", "I", "L">>, <<"O", "K", "A", "Y">>}

StatusInputs ==
    {Str(chars) : chars \in SeqsUpTo(StatusAlphabet, MaxStrLen) \cup StatusSpellings}
        \cup {Num(<<"4", "2">>), Absent}

InitNorm ==
    /\ pc = "normalize"
    /\ argc = 3
    /\ logdir = "dir"
    /\ InitData
    /\ s_arg \in StatusInputs
    /\ s_ret = "none"

\* lines 30-34, called as on line 70
NormalizeCall ==
    /\ pc = "normalize"
    /\ s_ret' = normalize_status(s_arg)
    /\ pc' = "normalized"
    /\ UNCHANGED <<argc, logdir, log_files, disk, all_entries, all_errors,
                   check_entries, counts, worst, findings, risk, mkdir_done,
                   report, exit_code, uncaught, s_arg>>

NextNorm == NormalizeCall

SpecNorm == InitNorm /\ [][NextNorm]_vars

(***************************************************************************)
(* What the claims speak of, computed from the files as they were read     *)
(* (disk) and not from the program's own passes over them.                 *)
(***************************************************************************)
Positions == UNION {{<<f, i>> : i \in 1..Len(disk[f].lines)} : f \in 1..Len(disk)}
LineAt(p) == disk[p[1]].lines[p[2]]

IsJsonLine(line) == line.kind = "json"
JsonValues(lines) ==
    LET js == SelectSeq(lines, IsJsonLine)
    IN  [i \in 1..Len(js) |-> js[i].json]

\* the values decoded from the first n files, in file order then line order;
\* a file whose reading raised contributes its lines only when partial is TRUE
RECURSIVE Produced(_, _, _)
Produced(files, n, partial) ==
    IF n = 0 THEN <<>>
    ELSE Produced(files, n - 1, partial)
            \o (IF files[n].raises /\ ~partial THEN <<>> ELSE JsonValues(files[n].lines))

ReservedNames == {"run_start", "run_summary"}
CheckNameOf(json) == IF json.check.t = "str" THEN json.check.v ELSE ""

\* the decoded records that are not run metadata
Tallied == {p \in Positions : IsJsonLine(LineAt(p)) /\ CheckNameOf(LineAt(p).json) \notin ReservedNames}
\* the normalized status of each of them
TalliedStatus == [p \in Tallied |-> normalize_status(LineAt(p).json.status)]

Loaded == pc \notin {"args", "logdir", "glob", "load"} /\ log_files # <<>>
Aggregated == pc \in {"risk", "write", "exit"} \/ report.written
RiskMapped == pc \in {"write", "exit"} \/ report.written
Completed == pc = "exited" /\ report.written
ConfigError ==
    \/ argc # 3
    \/ logdir # "dir"
    \/ pc \notin {"args", "logdir", "glob"} /\ log_files = <<>>

ErrorsNaming(name) == {k \in 1..Len(all_errors) : all_errors[k].file = name}
Occurrences(err) == {k \in 1..Len(all_errors) : all_errors[k] = err}

(***************************************************************************)
(* C1: after aggregation every tallied record has a normalized status in   *)
(* {OK, WARN, FAIL}, and counts.OK + counts.WARN + counts.FAIL equals the  *)
(* number of decoded records, over all files, whose check is neither       *)
(* run_start nor run_summary; the report's total is that number too.       *)
(***************************************************************************)
C1_CountsSumToNonReserved ==
    Aggregated =>
        /\ \A k \in 1..Len(check_entries) : check_entries[k].norm_status \in ALLOWED_STATUS
        /\ counts["OK"] + counts["WARN"] + counts["FAIL"] = Cardinality(Tallied)
        /\ Len(check_entries) = Cardinality(Tallied)
        /\ report.written =>
              /\ report.total = Cardinality(Tallied)
              /\ report.counts = counts

C1_Witness ==
    /\ Completed
    /\ Len(disk) = 2
    /\ counts["OK"] = 1
    /\ counts["FAIL"] = 1
    /\ \E p \in Positions : IsJsonLine(LineAt(p)) /\ p \notin Tallied

(***************************************************************************)
(* C2: the exit code is 2 exactly on a usage/configuration error, 1        *)
(* exactly when the run completed with at least one FAIL record, 0 exactly *)
(* when it completed with none.                                            *)
(***************************************************************************)
C2_ExitCodeContract ==
    pc = "exited" =>
        /\ exit_code = 2 <=> ConfigError
        /\ exit_code = 1 <=> (Completed /\ counts["FAIL"] > 0)
        /\ exit_code = 0 <=> (Completed /\ counts["FAIL"] = 0)

(***************************************************************************)
(* C3: after aggregation worst is FAIL iff counts.FAIL > 0, WARN iff       *)
(* counts.WARN > 0 and counts.FAIL = 0, and OK otherwise, in whatever      *)
(* order the statuses came.                                                *)
(***************************************************************************)
C3_WorstMatchesCounts ==
    Aggregated =>
        /\ worst \in ALLOWED_STATUS
        /\ worst = "FAIL" <=> counts["FAIL"] > 0
        /\ worst = "WARN" <=> (counts["WARN"] > 0 /\ counts["FAIL"] = 0)
        /\ worst = "OK" <=> (counts["WARN"] = 0 /\ counts["FAIL"] = 0)

C3_Witness ==
    /\ Aggregated
    /\ Len(check_entries) = 3
    /\ check_entries[1].norm_status = "FAIL"
    /\ check_entries[2].norm_status = "WARN"
    /\ check_entries[3].norm_status = "OK"
    /\ worst = "FAIL"

(***************************************************************************)
(* C4: normalize_status returns OK, WARN or FAIL; a string that reads OK,  *)
(* WARN or FAIL in any letter case between surrounding whitespace gives    *)
(* that value; a missing status, a number and every other string give      *)
(* FAIL.                                                                   *)
(***************************************************************************)
Letters(word) ==
    CASE word = "OK" -> <<{"O", "o"}, {"K", "k"}>>
      [] word = "WARN" -> <<{"W", "w"}, {"A", "a"}, {"R", "r"}, {"N", "n"}>>
      [] word = "FAIL" -> <<{"F", "f"}, {"A", "a"}, {"I", "i"}, {"L", "l"}>>

Reads(chars, word) ==
    LET w == Letters(word)
    IN  \E pad \in 0..Len(chars) :
            /\ pad + Len(w) <= Len(chars)
            /\ \A i \in 1..Len(chars) :
                  IF i <= pad \/ i > pad + Len(w)
                  THEN chars[i] \in {" ", "\t", "\n"}
                  ELSE chars[i] \in w[i - pad]

C4_NormalizedStatus ==
    pc = "normalized" =>
        /\ s_ret \in {"OK", "WARN", "FAIL"}
        /\ \A word \in {"OK", "WARN", "FAIL"} :
              (s_arg.t = "str" /\ Reads(s_arg.v, word)) => s_ret = word
        /\ (s_arg.t # "str" \/ \A word \in {"OK", "WARN"} : ~Reads(s_arg.v, word))
              => s_ret = "FAIL"

C4_Witness ==
    /\ pc = "normalized"
    /\ s_arg = Str(<<" ", "O", "k", " ">>)
    /\ s_ret = "OK"

(***************************************************************************)
(* C5: a record whose check is exactly run_start or run_summary adds to no *)
(* counter, does not change worst and is in no finding, whatever its       *)
(* status; every other decoded record is counted exactly once, under its   *)
(* normalized status.                                                      *)
(***************************************************************************)
C5_ReservedNeverCounted ==
    Aggregated =>
        LET status == TalliedStatus
            as(st) == {p \in DOMAIN status : status[p] = st}
        IN  /\ \A st \in ALLOWED_STATUS : counts[st] = Cardinality(as(st))
            /\ Len(findings) = Cardinality(as("WARN")) + Cardinality(as("FAIL"))
            /\ \A k \in 1..Len(findings) : CheckNameOf(findings[k]) \notin ReservedNames
            /\ worst # "OK" => as(worst) # {}

C5_Witness ==
    /\ Aggregated
    /\ counts = [NoCounts EXCEPT !["OK"] = 1]
    /\ worst = "OK"
    /\ findings = <<>>
    /\ \E p \in Positions :
          /\ IsJsonLine(LineAt(p))
          /\ CheckNameOf(LineAt(p).json) = "run_summary"
          /\ normalize_status(LineAt(p).json.status) = "FAIL"
    /\ \E p \in Positions :
          /\ IsJsonLine(LineAt(p))
          /\ CheckNameOf(LineAt(p).json) = "run_start"
          /\ normalize_status(LineAt(p).json.status) = "WARN"

(***************************************************************************)
(* C6: a line that fails JSON parsing stops nothing: every decodable line  *)
(* of the files read is in all_entries, in file order then line order;     *)
(* each bad line has exactly one decode error, with its file's name and    *)
(* its 1-based line number, blank lines counted; the errors are in file    *)
(* order then line order.                                                  *)
(***************************************************************************)
BadLines == {p \in Positions : LineAt(p).kind = "bad"}

NonObjects == {p \in Positions : IsJsonLine(LineAt(p)) /\ LineAt(p).json.type # "object"}

C7_NonObjectCountedAsFail ==
    (pc = "exited" /\ ~ConfigError /\ NonObjects # {}) =>
        /\ uncaught = "none"
        /\ report.written
        /\ counts["FAIL"] >= Cardinality(NonObjects)
        /\ exit_code = 1

(***************************************************************************)
(* C8: on a fatal configuration error (wrong argument count, log directory *)
(* missing or not a directory, no *.jsonl file in it) the process exits    *)
(* with code 2 and has neither created the output's parent directory nor   *)
(* written the report.                                                     *)
(***************************************************************************)
C8_ConfigErrorWritesNothing ==
    /\ ConfigError =>
          /\ pc \in {"args", "logdir", "glob", "exited"}
          /\ pc = "exited" => exit_code = 2
          /\ ~mkdir_done
          /\ ~report.written
    /\ exit_code = 2 => (~mkdir_done /\ ~report.written)

C8_Witness ==
    /\ pc = "exited"
    /\ argc = 3
    /\ logdir = "dir"
    /\ log_files = <<>>
    /\ exit_code = 2
    /\ ~mkdir_done
    /\ ~report.written

(***************************************************************************)
(* C9: the risk label depends on the FAIL counter alone: Låg for 0,        *)
(* Medel for exactly 1, Hög for 2 or more, whatever the WARN counter is.   *)
(***************************************************************************)
C9_RiskFromFailCount ==
    RiskMapped =>
        /\ counts["FAIL"] = 0 => risk = "Låg"
        /\ counts["FAIL"] = 1 => risk = "Medel"
        /\ counts["FAIL"] >= 2 => risk = "Hög"
        /\ report.written => report.risk = risk

C9_Witness ==
    /\ RiskMapped
    /\ counts["FAIL"] = 1
    /\ counts["WARN"] = 2
    /\ risk = "Medel"

(***************************************************************************)
(* C10, as claimed: when a file cannot be opened or its reading fails at   *)
(* any point, exactly one decode error names the file, no record of the    *)
(* file is produced, and the remaining files are still read.               *)
(***************************************************************************)
C10_FailedFileYieldsNothing ==
    /\ all_entries = Produced(disk, Len(disk), FALSE)
    /\ \A f \in 1..Len(disk) :
          disk[f].raises => Cardinality(ErrorsNaming(disk[f].name)) = 1
    /\ Loaded => Len(disk) = Len(log_files)

(***************************************************************************)
(* C10, amended: when a file cannot be opened or its reading fails at any  *)
(* point, exactly one file-level decode error names the file, after the    *)
(* decode errors of the lines read before the failure; the records of the  *)
(* lines read before the failure are kept (none when the open fails), and  *)
(* the remaining files are still read.                                     *)
(***************************************************************************)
C10_FailedFileKeepsLinesRead ==
    /\ all_entries = Produced(disk, Len(disk), TRUE)
    /\ \A f \in 1..Len(disk) :
          LET fileErrors == Occurrences([file |-> disk[f].name, lineno |-> 0,
                                         what |-> "Could not read file"])
          IN  /\ Cardinality(fileErrors) = IF disk[f].raises THEN 1 ELSE 0
              /\ \A k \in fileErrors : \A j \in ErrorsNaming(disk[f].name) : j <= k
    /\ Loaded => Len(disk) = Len(log_files)

C10_Witness ==
    /\ Loaded
    /\ Len(disk) = 2
    /\ disk[1].raises
    /\ disk[1].lines = <<BadLine, JsonLine(Object(Absent, StatusOk))>>
    /\ ~disk[2].raises
    /\ disk[2].lines = <<JsonLine(Object(Absent, StatusWarn))>>
    /\ Len(all_entries) = 2
    /\ Len(all_errors) = 2

=============================================================================
